---- MODULE Spec2Model ----
(***************************************************************************)
(* Authentication and credential lifecycle of the gliderblog web login     *)
(* (src/myweb.py, src/security.py).                                        *)
(*                                                                         *)
(* The state is the `login` table of the relational store, the background  *)
(* tasks queued by the handlers, the mails that left through SMTP, the     *)
(* send errors printed and the response of the last request.               *)
(* Every handler is an `async def` without an await between its SELECT     *)
(* and its UPDATE/INSERT, so one handler is one step.  The store is taken  *)
(* to be reachable (db.conn() returns a connection).                       *)
(*                                                                         *)
(* secrets.token_urlsafe(32) draws 256 random bits; it is modelled as a    *)
(* value never stored before: nextToken is the next such value.  A token   *)
(* that a handler draws and then drops (conflict, unknown email) leaves no *)
(* trace, so only a stored token advances nextToken.  The cookies a       *)
(* response sets are fields of resp, the cookies a request carries are     *)
(* inputs.  bcrypt and SHA-256 are taken to be injective on what they      *)
(* read.                                                                   *)
(*                                                                         *)
(* Specifications:                                                         *)
(*   Spec        one request at a time, clients that send any cookie       *)
(*   SpecSession one browser that keeps to its cookies, next to such       *)
(*               clients                                                   *)
(*   SpecDevice  the device guard over any device table                    *)
(*   SpecByHand  a first administrator whose password column was filled    *)
(*               by hand                                                   *)
(*   SpecHash    the password functions on their own (genpswhash.py)       *)
(*   SpecInsert, SpecToken  several requests under way on the event loop   *)
(***************************************************************************)
EXTENDS Integers, Sequences, FiniteSets, TLC

VARIABLES login, nextToken, tasks, outbox, stdout, resp

\* jar: the cookies the browser of one client holds.  devices: the device
\* table.  call: a call of the password functions made outside a request
\* (genpswhash.py).  inflight: the requests that several server processes
\* have under way at once, each between its SELECT and its write.
VARIABLES jar, devices, call, inflight

vars == <<login, nextToken, tasks, outbox, stdout, resp, jar, devices, call, inflight>>

\* Spec below runs one request at a time on behalf of clients that may send
\* any cookie, and leaves these alone.
others == <<jar, devices, call, inflight>>

\* ---------------------------------------------------------------- bounds
MaxToken == 2

\* ------------------------------------------------------ program constants
COOKIE_EXPIRE_MINUTES == 60

\* ------------------------------------------------------------ value sets
Usernames == {"admin", "alice"}
Emails == {"admin@x.com", "a@x.com"}
Tokens == 1..MaxToken
\* bcrypt.gensalt() draws the salt; the handlers below hash with this one.
Salts == {1}

\* A password is the text of its first 72 bytes (head) and of what follows
\* them (tail, empty when the password has at most 72 bytes).
Passwords == {[head |-> <<"test">>, tail |-> <<>>], [head |-> <<"secret123">>, tail |-> <<>>]}

\* password = "test" of genpswhash.py; also the value of a password field
\* that a handler does not get to read.
AnyPassword == [head |-> <<"test">>, tail |-> <<>>]

\* SQL NULL / Python None; a token value t is stored as <<t>>.
NULL == <<>>
None == <<>>

\* ----------------------------------------------------- security.py model
\* bcrypt reads at most 72 bytes of its input.
Truncate72(b) == [head |-> b.head, tail |-> <<>>]

\* Mutant: the password goes to bcrypt as it is, without the SHA-256 digest.
prepare_password_plain(password) == password

\* hashlib.sha256(...).hexdigest(): 64 hex characters that depend on the
\* whole password (collision resistant), all within the first 72 bytes.
prepare_password(password) == [head |-> <<"sha256", password.head, password.tail>>, tail |-> <<>>]

\* bcrypt.hashpw(prepared, salt): self-describing, carries its salt.
bcrypt_hashpw(prepared, salt) == [salt |-> salt, key |-> Truncate72(prepared)]

\* bcrypt.checkpw(prepared, hash): rehash with the salt of the stored hash.
bcrypt_checkpw(prepared, password_hash) == bcrypt_hashpw(prepared, password_hash.salt) = password_hash

\* A stored value that bcrypt can read as a hash: it carries a salt and a key.
\* Anything else in the password column (an empty text, a plain password)
\* is a record [text |-> ...].
IsBcryptHash(password_hash) == DOMAIN password_hash = {"salt", "key"}

\* bcrypt.checkpw raises ValueError("Invalid salt") when the stored value is
\* not a bcrypt hash.
bcrypt_checkpw_raises(password_hash) == ~IsBcryptHash(password_hash)

hash_password(password, salt) == bcrypt_hashpw(prepare_password(password), salt)

\* verify_password has no try/except: what bcrypt.checkpw raises, it raises.
verify_password_raises(password, password_hash) == bcrypt_checkpw_raises(password_hash)

verify_password(password, password_hash) == bcrypt_checkpw(prepare_password(password), password_hash)

\* Mutant: the role marker is always the administrator's.
Str_admin(n) == "0"

\* str(user.get("type", "1"))
Str(n) == IF n = 0 THEN "0" ELSE "1"

\* ------------------------------------------------------------ the store
Rows == DOMAIN login

\* Mutant: the uniqueness check asks for both columns to match.
SelectByUsernameAndEmail(username, email) == {i \in Rows : login[i].username = username /\ login[i].email = email}

\* cursor.execute("SELECT ... WHERE username=%s OR email=%s")
SelectByUsernameOrEmail(username, email) == {i \in Rows : login[i].username = username \/ login[i].email = email}

SelectByUsername(username) == {i \in Rows : login[i].username = username}

SelectByEmail(email) == {i \in Rows : login[i].email = email}

SelectByEmailToken(token) == {i \in Rows : login[i].email_token = <<token>>}

\* Mutant: the lookup reads the activation token column.
SelectByResetToken_email_token(token) == {i \in Rows : login[i].email_token = <<token>>}

SelectByResetToken(token) == {i \in Rows : login[i].reset_token = <<token>>}

\* Mutant: the record is inserted already active.
InsertUser_active(username, email, pw_hash, user_type, token) ==
    Append(login, [username |-> username, email |-> email, password |-> pw_hash,
                   type |-> user_type, email_token |-> <<token>>, is_active |-> 1,
                   reset_token |-> NULL])

\* INSERT INTO login (username, email, password, type, email_token, is_active)
\* VALUES (..., 0); reset_token takes the column default NULL.
InsertUser(username, email, pw_hash, user_type, token) ==
    Append(login, [username |-> username, email |-> email, password |-> pw_hash,
                   type |-> user_type, email_token |-> <<token>>, is_active |-> 0,
                   reset_token |-> NULL])

\* Mutant: the update activates the record and forgets to clear the token.
SetActive_keeps_token(token) ==
    [i \in Rows |-> IF login[i].email_token = <<token>>
                    THEN [login[i] EXCEPT !.is_active = 1]
                    ELSE login[i]]

\* UPDATE login SET is_active=1, email_token=NULL WHERE email_token=%s
SetActive(token) ==
    [i \in Rows |-> IF login[i].email_token = <<token>>
                    THEN [login[i] EXCEPT !.is_active = 1, !.email_token = NULL]
                    ELSE login[i]]

\* Mutant: the update has no WHERE clause.
SetResetToken_every_row(email, token) == [i \in Rows |-> [login[i] EXCEPT !.reset_token = <<token>>]]

\* UPDATE login SET reset_token=%s WHERE email=%s
SetResetToken(email, token) ==
    [i \in Rows |-> IF login[i].email = email
                    THEN [login[i] EXCEPT !.reset_token = <<token>>]
                    ELSE login[i]]

\* Mutant: the update replaces the password and leaves the token in place.
SetPasswordAndClearReset_keeps_token(token, new_hash) ==
    [i \in Rows |-> IF login[i].reset_token = <<token>>
                    THEN [login[i] EXCEPT !.password = new_hash]
                    ELSE login[i]]

\* Mutant: completing a reset also activates the record.
SetPasswordAndClearReset_activates(token, new_hash) ==
    [i \in Rows |-> IF login[i].reset_token = <<token>>
                    THEN [login[i] EXCEPT !.password = new_hash, !.reset_token = NULL, !.is_active = 1]
                    ELSE login[i]]

\* UPDATE login SET password=%s, reset_token=NULL WHERE reset_token=%s
SetPasswordAndClearReset(token, new_hash) ==
    [i \in Rows |-> IF login[i].reset_token = <<token>>
                    THEN [login[i] EXCEPT !.password = new_hash, !.reset_token = NULL]
                    ELSE login[i]]

\* The response of a handler: the page rendered or redirected to, the
\* message shown, the cookies set (None: not set) and their max-age; op, key,
\* token and cookies echo the request (its route, its username or email, the
\* token of its path, 0 when the path has none, and the cookies a gated
\* route read).
Response(op, key, page, kind, msg) ==
    [op |-> op, key |-> key, token |-> 0, cookies |-> <<>>, page |-> page, kind |-> kind, msg |-> msg,
     user_session |-> None, user_type |-> None, max_age |-> 0]

TokenResponse(op, token, page, kind, msg) == [Response(op, <<>>, page, kind, msg) EXCEPT !.token = token]

GatedResponse(op, user_session, user_type, page, kind, msg) ==
    [Response(op, <<>>, page, kind, msg) EXCEPT !.cookies = <<user_session, user_type>>]

\* The table before the first request.  No handler creates the first
\* administrator, so the table starts with the one the operator inserted by
\* hand, with the hash that genpswhash.py printed for the password "test",
\* active and without tokens.
SeededAdmin ==
    [username |-> "admin", email |-> "admin@x.com", password |-> hash_password(AnyPassword, 1),
     type |-> 0, email_token |-> NULL, is_active |-> 1, reset_token |-> NULL]

Init ==
    /\ login = <<SeededAdmin>>
    /\ nextToken = 1
    /\ tasks = {}
    /\ outbox = {}
    /\ stdout = {}
    /\ resp = Response("none", <<>>, "", "", "")
    /\ jar = <<None, None>>
    /\ devices = {}
    /\ call = <<>>
    /\ inflight = <<>>

\* -------------------------------------------------------------- handlers
\* POST /register
register_submit(username, email, password, salt) ==
    /\ LET token == nextToken
           user_type == 1
       IN IF SelectByUsernameOrEmail(username, email) # {}
          THEN /\ resp' = Response("register", <<>>, "register.html",
                                   "error", "Username or Email already taken")
               /\ UNCHANGED <<login, tasks, nextToken>>
          ELSE /\ nextToken <= MaxToken
               /\ nextToken' = nextToken + 1
               /\ login' = InsertUser(username, email, hash_password(password, salt), user_type, token)
               /\ tasks' = tasks \cup {[fn |-> "send_verification_email", email |-> email,
                                        username |-> username, token |-> token]}
               /\ resp' = Response("register", <<>>, "login.html", "success",
                                   "Registration complete! Please check your email to activate your account.")
    /\ UNCHANGED <<outbox, stdout>>

\* A request that ends before the handler reads one of its inputs is
\* enumerated once, with one value of that input.
Register ==
    \E u \in Usernames, e \in Emails :
       IF SelectByUsernameOrEmail(u, e) # {}
       THEN register_submit(u, e, AnyPassword, 1) /\ UNCHANGED others
       ELSE \E p \in Passwords, s \in Salts : register_submit(u, e, p, s) /\ UNCHANGED others

\* GET /verify/{token}
verify_account(token) ==
    /\ IF SelectByEmailToken(token) # {}
       THEN /\ login' = SetActive(token)
            /\ resp' = TokenResponse("verify", token, "login.html", "success",
                                "Account activated successfully! You can now log in.")
       ELSE /\ resp' = TokenResponse("verify", token, "login.html", "error", "Invalid or expired token.")
            /\ UNCHANGED login
    /\ UNCHANGED <<nextToken, tasks, outbox, stdout>>

Verify == \E t \in Tokens : verify_account(t) /\ UNCHANGED others

\* Mutant: a record that has a reset pending keeps its token; the new token
\* is mailed all the same.
forgot_password_submit_keeps_pending(email) ==
    /\ LET token == nextToken
           found == SelectByEmail(email)
       IN IF found # {}
          THEN \E i \in found :
                 /\ nextToken <= MaxToken
                 /\ nextToken' = nextToken + 1
                 /\ login' = IF login[i].reset_token = NULL THEN SetResetToken(email, token) ELSE login
                 /\ tasks' = tasks \cup {[fn |-> "send_reset_email", email |-> email,
                                          username |-> login[i].username, token |-> token]}
          ELSE UNCHANGED <<login, tasks, nextToken>>
    /\ resp' = Response("forgot", <<email>>, "forgot_password.html", "success",
                        "If the email is in our system, you will receive a reset link shortly.")
    /\ UNCHANGED <<outbox, stdout>>

\* POST /forgot-password
forgot_password_submit(email) ==
    /\ LET token == nextToken
           found == SelectByEmail(email)
       IN IF found # {}
          THEN \E i \in found :
                 /\ nextToken <= MaxToken
                 /\ nextToken' = nextToken + 1
                 /\ login' = SetResetToken(email, token)
                 /\ tasks' = tasks \cup {[fn |-> "send_reset_email", email |-> email,
                                          username |-> login[i].username, token |-> token]}
          ELSE UNCHANGED <<login, tasks, nextToken>>
    /\ resp' = Response("forgot", <<email>>, "forgot_password.html", "success",
                        "If the email is in our system, you will receive a reset link shortly.")
    /\ UNCHANGED <<outbox, stdout>>

ForgotPassword == \E e \in Emails : forgot_password_submit(e) /\ UNCHANGED others

\* Mutant: the update clears the token and leaves the password as it was.
reset_password_submit_no_store(token, new_password, salt) ==
    /\ IF SelectByResetToken(token) # {}
       THEN /\ login' = [i \in Rows |-> IF login[i].reset_token = <<token>>
                                        THEN [login[i] EXCEPT !.reset_token = NULL]
                                        ELSE login[i]]
            /\ resp' = TokenResponse("reset", token, "login.html", "success",
                                "Password updated! You can now log in.")
       ELSE /\ resp' = TokenResponse("reset", token, "login.html", "error", "Invalid or expired token.")
            /\ UNCHANGED login
    /\ UNCHANGED <<nextToken, tasks, outbox, stdout>>

\* POST /reset-password/{token}
reset_password_submit(token, new_password, salt) ==
    /\ IF SelectByResetToken(token) # {}
       THEN /\ login' = SetPasswordAndClearReset(token, hash_password(new_password, salt))
            /\ resp' = TokenResponse("reset", token, "login.html", "success",
                                "Password updated! You can now log in.")
       ELSE /\ resp' = TokenResponse("reset", token, "login.html", "error", "Invalid or expired token.")
            /\ UNCHANGED login
    /\ UNCHANGED <<nextToken, tasks, outbox, stdout>>

ResetPassword ==
    \E t \in Tokens :
       IF SelectByResetToken(t) = {}
       THEN reset_password_submit(t, AnyPassword, 1) /\ UNCHANGED others
       ELSE \E p \in Passwords, s \in Salts : reset_password_submit(t, p, s) /\ UNCHANGED others

\* Mutant: the activation state is looked at before the password.
login_submit_active_first(username, password) ==
    /\ LET found == SelectByUsername(username)
           invalid == resp' = Response("login", <<username>>, "login.html", "error", "Invalid credentials")
       IN IF found = {}
          THEN invalid
          ELSE \E i \in found :
                 LET user == login[i]
                 IN IF user.is_active = 0
                    THEN resp' = Response("login", <<username>>, "login.html", "error",
                                          "Account not active. Please check your verification email.")
                    ELSE IF verify_password(password, user.password)
                         THEN resp' = [Response("login", <<username>>, "/welcome", "redirect", "")
                                          EXCEPT !.user_session = <<user.username>>,
                                                 !.user_type = <<Str(user.type)>>,
                                                 !.max_age = COOKIE_EXPIRE_MINUTES * 60]
                         ELSE invalid
    /\ UNCHANGED <<login, nextToken, tasks, outbox, stdout>>

\* Mutant: the activation state is not looked at.
login_submit_no_active_check(username, password) ==
    /\ LET found == SelectByUsername(username)
           invalid == resp' = Response("login", <<username>>, "login.html", "error", "Invalid credentials")
       IN IF found = {}
          THEN invalid
          ELSE \E i \in found :
                 LET user == login[i]
                 IN IF verify_password(password, user.password)
                    THEN resp' = [Response("login", <<username>>, "/welcome", "redirect", "")
                                     EXCEPT !.user_session = <<user.username>>,
                                            !.user_type = <<Str(user.type)>>,
                                            !.max_age = COOKIE_EXPIRE_MINUTES * 60]
                    ELSE invalid
    /\ UNCHANGED <<login, nextToken, tasks, outbox, stdout>>

\* POST /login.  verify_password is called outside the try block, so an
\* exception it raises ends the request with the framework's 500 response.
login_submit(username, password) ==
    /\ LET found == SelectByUsername(username)
           invalid == resp' = Response("login", <<username>>, "login.html", "error", "Invalid credentials")
       IN IF found = {}
          THEN invalid
          ELSE \E i \in found :
                 LET user == login[i]
                 IN IF verify_password_raises(password, user.password)
                    THEN resp' = Response("login", <<username>>, "", "500", "Internal Server Error")
                    ELSE
                    IF verify_password(password, user.password)
                    THEN IF user.is_active = 0
                         THEN resp' = Response("login", <<username>>, "login.html", "error",
                                               "Account not active. Please check your verification email.")
                         ELSE resp' = [Response("login", <<username>>, "/welcome", "redirect", "")
                                          EXCEPT !.user_session = <<user.username>>,
                                                 !.user_type = <<Str(user.type)>>,
                                                 !.max_age = COOKIE_EXPIRE_MINUTES * 60]
                    ELSE invalid
    /\ UNCHANGED <<login, nextToken, tasks, outbox, stdout>>

Login == \E u \in Usernames, p \in Passwords : login_submit(u, p) /\ UNCHANGED others

\* Mutant: only an absent identity cookie is refused, an empty one passes.
get_current_user_none_only(user_session) == user_session # None

\* Depends(get_current_user): the identity cookie must be present and non-empty.
get_current_user(user_session) == user_session # None /\ user_session # <<"">>

\* Mutant: the role marker is not looked at.
get_admin_user_any_role(user_session, user_type) == get_current_user(user_session)

\* Depends(get_admin_user): get_current_user first, then the role marker.
get_admin_user(user_session, user_type) == get_current_user(user_session) /\ user_type = <<"0">>

\* POST /create_user, requested with the cookies (user_session, user_type).
\* The success message also names the new username; msg keeps its fixed part.
create_user_submit(username, email, password, is_admin, salt, user_session, user_type) ==
    IF ~get_current_user(user_session)
    THEN /\ resp' = GatedResponse("create_user", user_session, user_type, "/login", "redirect", "")
         /\ UNCHANGED <<login, nextToken, tasks, outbox, stdout>>
    ELSE IF ~get_admin_user(user_session, user_type)
    THEN /\ resp' = GatedResponse("create_user", user_session, user_type, "/welcome", "redirect",
                             "Access denied: admin permissions required")
         /\ UNCHANGED <<login, nextToken, tasks, outbox, stdout>>
    ELSE /\ LET new_type == IF is_admin = <<"on">> THEN 0 ELSE 1
                token == nextToken
            IN IF SelectByUsernameOrEmail(username, email) # {}
               THEN /\ resp' = GatedResponse("create_user", user_session, user_type, "create_user.html",
                                        "error", "Username or Email already present")
                    /\ UNCHANGED <<login, tasks, nextToken>>
               ELSE /\ nextToken <= MaxToken
                    /\ nextToken' = nextToken + 1
                    /\ login' = InsertUser(username, email, hash_password(password, salt), new_type, token)
                    /\ tasks' = tasks \cup {[fn |-> "send_verification_email", email |-> email,
                                             username |-> username, token |-> token]}
                    /\ resp' = GatedResponse("create_user", user_session, user_type, "create_user.html",
                                        "success", "User created. Activation email sent.")
         /\ UNCHANGED <<outbox, stdout>>

\* What a request can carry as cookies: nothing, an empty value, or a text
\* (the handlers never look the identity up, so one name stands for all).
SessionCookies == {None, <<"">>, <<"admin">>}
TypeCookies == {None, <<"0">>, <<"1">>}

CreateUser ==
    \E cs \in SessionCookies, ct \in TypeCookies :
       IF ~get_admin_user(cs, ct)
       THEN create_user_submit("admin", "admin@x.com", AnyPassword, None, 1, cs, ct) /\ UNCHANGED others
       ELSE \E u \in Usernames, e \in Emails :
               IF SelectByUsernameOrEmail(u, e) # {}
               THEN create_user_submit(u, e, AnyPassword, None, 1, cs, ct) /\ UNCHANGED others
               ELSE \E p \in Passwords, a \in {None, <<"on">>}, s \in Salts :
                       create_user_submit(u, e, p, a, s, cs, ct) /\ UNCHANGED others

\* Mutant: the logout deletes the identity cookie and forgets the role marker.
logout_keeps_role ==
    /\ resp' = [Response("logout", <<>>, "/login", "redirect", "") EXCEPT !.user_session = <<"">>]
    /\ UNCHANGED <<login, nextToken, tasks, outbox, stdout>>

\* GET /logout; delete_cookie sends the cookie back empty with max-age 0.
logout ==
    /\ resp' = [Response("logout", <<>>, "/login", "redirect", "")
                  EXCEPT !.user_session = <<"">>, !.user_type = <<"">>]
    /\ UNCHANGED <<login, nextToken, tasks, outbox, stdout>>

\* Mutant: a send that fails takes back the record the mail was for.
send_verification_email_rollback(task, smtp_ok) ==
    /\ task \in tasks
    /\ task.fn = "send_verification_email"
    /\ tasks' = tasks \ {task}
    /\ outbox' = IF smtp_ok THEN outbox \cup {task} ELSE outbox
    /\ stdout' = IF smtp_ok THEN stdout ELSE stdout \cup {task}
    /\ login' = IF smtp_ok THEN login ELSE SelectSeq(login, LAMBDA row : row.email_token # <<task.token>>)
    /\ UNCHANGED <<nextToken, resp>>

\* Background task: the SMTP conversation succeeds (smtp_ok) or raises; the
\* exception is printed (stdout holds the tasks whose error was printed) and
\* nothing else happens.
send_verification_email(task, smtp_ok) ==
    /\ task \in tasks
    /\ task.fn = "send_verification_email"
    /\ tasks' = tasks \ {task}
    /\ outbox' = IF smtp_ok THEN outbox \cup {task} ELSE outbox
    /\ stdout' = IF smtp_ok THEN stdout ELSE stdout \cup {task}
    /\ UNCHANGED <<login, nextToken, resp>>

send_reset_email(task, smtp_ok) ==
    /\ task \in tasks
    /\ task.fn = "send_reset_email"
    /\ tasks' = tasks \ {task}
    /\ outbox' = IF smtp_ok THEN outbox \cup {task} ELSE outbox
    /\ stdout' = IF smtp_ok THEN stdout ELSE stdout \cup {task}
    /\ UNCHANGED <<login, nextToken, resp>>

SendVerificationEmail ==
    \E t \in tasks, ok \in BOOLEAN : send_verification_email(t, ok) /\ UNCHANGED others

SendResetEmail == \E t \in tasks, ok \in BOOLEAN : send_reset_email(t, ok) /\ UNCHANGED others

Logout == logout /\ UNCHANGED others

Next ==
    \/ Register
    \/ Verify
    \/ ForgotPassword
    \/ ResetPassword
    \/ Login
    \/ CreateUser
    \/ Logout
    \/ SendVerificationEmail
    \/ SendResetEmail

Spec == Init /\ [][Next]_vars

\* ---------------------------------------------------- one browser's session
\* GET /welcome, requested with the cookies (user_session, user_type); the
\* page is rendered for the name in the identity cookie and shows the
\* administrator menu when the role marker is "0".
welcome_page(user_session, user_type) ==
    /\ IF ~get_current_user(user_session)
       THEN resp' = GatedResponse("welcome", user_session, user_type, "/login", "redirect", "")
       ELSE resp' = GatedResponse("welcome", user_session, user_type, "welcome.html", "page",
                                  IF user_type = <<"0">> THEN "is_admin" ELSE "")
    /\ UNCHANGED <<login, nextToken, tasks, outbox, stdout>>

\* A request of some client other than the browser: any cookies.
Welcome == \E cs \in SessionCookies, ct \in TypeCookies : welcome_page(cs, ct) /\ UNCHANGED others

\* What the browser holds after a response: set_cookie with a max-age stores
\* the value, delete_cookie (empty value, max-age 0) removes it, a response
\* without the cookie leaves it.
BrowserStore(held, r) ==
    <<IF r.user_session = None THEN held[1] ELSE IF r.max_age = 0 THEN None ELSE r.user_session,
      IF r.user_type = None THEN held[2] ELSE IF r.max_age = 0 THEN None ELSE r.user_type>>

\* The browser sends what it holds and stores what it is sent.
BrowserLogin ==
    /\ \E u \in Usernames, p \in Passwords : login_submit(u, p)
    /\ jar' = BrowserStore(jar, resp')
    /\ UNCHANGED <<devices, call, inflight>>

BrowserLogout ==
    /\ logout
    /\ jar' = BrowserStore(jar, resp')
    /\ UNCHANGED <<devices, call, inflight>>

BrowserWelcome ==
    /\ welcome_page(jar[1], jar[2])
    /\ jar' = BrowserStore(jar, resp')
    /\ UNCHANGED <<devices, call, inflight>>

BrowserCreateUser ==
    /\ IF ~get_admin_user(jar[1], jar[2])
       THEN create_user_submit("admin", "admin@x.com", AnyPassword, None, 1, jar[1], jar[2])
       ELSE \E u \in Usernames, e \in Emails :
               IF SelectByUsernameOrEmail(u, e) # {}
               THEN create_user_submit(u, e, AnyPassword, None, 1, jar[1], jar[2])
               ELSE \E p \in Passwords, a \in {None, <<"on">>}, s \in Salts :
                       create_user_submit(u, e, p, a, s, jar[1], jar[2])
    /\ jar' = BrowserStore(jar, resp')
    /\ UNCHANGED <<devices, call, inflight>>

\* max_age seconds after the login the browser drops both cookies.
Expire ==
    /\ jar # <<None, None>>
    /\ jar' = <<None, None>>
    /\ UNCHANGED <<login, nextToken, tasks, outbox, stdout, resp, devices, call, inflight>>

\* One browser that keeps to the cookies it was given, next to clients that
\* send any cookies.
NextSession ==
    \/ Register
    \/ Verify
    \/ BrowserLogin
    \/ BrowserLogout
    \/ BrowserWelcome
    \/ BrowserCreateUser
    \/ Expire
    \/ Welcome
    \/ CreateUser

SpecSession == Init /\ [][NextSession]_vars

\* ------------------------------------------------------- the device guard
DeviceIds == {"d1", "d2"}
DeviceTokens == {"k1", "k2", "k3"}

\* Mutant: the lookup asks for the device only, not for its token.
SelectDevice_by_id(device_id, token) == {r \in devices : r.device_id = device_id}

\* c.execute("SELECT 1 FROM devices WHERE device_id=%s AND device_token=%s")
SelectDevice(device_id, token) ==
    {r \in devices : r.device_id = device_id /\ r.device_token = token}

\* DeviceSecurity.verify_device: returns None, or raises HTTPException(401).
verify_device(device_id, token) ==
    /\ LET ok == SelectDevice(device_id, token)
       IN IF ok = {}
          THEN resp' = Response("verify_device", <<device_id, token>>, "", "401", "Invalid Token")
          ELSE resp' = Response("verify_device", <<device_id, token>>, "", "return", "")
    /\ UNCHANGED <<login, nextToken, tasks, outbox, stdout, devices>>

VerifyDevice ==
    \E d \in DeviceIds, t \in DeviceTokens : verify_device(d, t) /\ UNCHANGED <<jar, call, inflight>>

\* The device table is written elsewhere; any table can be there.
InitDevice ==
    /\ login = <<SeededAdmin>>
    /\ nextToken = 1
    /\ tasks = {}
    /\ outbox = {}
    /\ stdout = {}
    /\ resp = Response("none", <<>>, "", "", "")
    /\ jar = <<None, None>>
    /\ devices \in SUBSET [device_id : DeviceIds, device_token : DeviceTokens]
    /\ call = <<>>
    /\ inflight = <<>>

NextDevice == VerifyDevice

SpecDevice == InitDevice /\ [][NextDevice]_vars

\* ------------------------------------------- a table with hand-made rows
\* What the operator can have put into the password column of the first
\* administrator: the hash genpswhash.py printed, nothing, or the password.
StoredByHand == {hash_password(AnyPassword, 1), [text |-> ""], [text |-> "test"]}

InitByHand ==
    /\ \E h \in StoredByHand : login = <<[SeededAdmin EXCEPT !.password = h]>>
    /\ nextToken = 1
    /\ tasks = {}
    /\ outbox = {}
    /\ stdout = {}
    /\ resp = Response("none", <<>>, "", "", "")
    /\ jar = <<None, None>>
    /\ devices = {}
    /\ call = <<>>
    /\ inflight = <<>>

\* The operations that read or write the password column.
NextByHand ==
    \/ Register
    \/ Verify
    \/ Login
    \/ ForgotPassword
    \/ ResetPassword

SpecByHand == InitByHand /\ [][NextByHand]_vars

\* ------------------------------------------------ the password functions
\* Passwords of at most 72 bytes, of exactly 72 bytes, and longer ones that
\* agree on their first 72 bytes or differ in them.
HashInputs ==
    {[head |-> <<"test">>, tail |-> <<>>],
     [head |-> <<"PasswordSbagliata123">>, tail |-> <<>>],
     [head |-> <<"">>, tail |-> <<>>],
     [head |-> <<"a * 72">>, tail |-> <<>>],
     [head |-> <<"a * 72">>, tail |-> <<"x">>],
     [head |-> <<"a * 72">>, tail |-> <<"y">>],
     [head |-> <<"b * 72">>, tail |-> <<"x">>]}

\* What bcrypt.gensalt() can return.
HashSalts == {1, 2}

\* genpswhash.py main, for any password, any other password and any salt:
\* hash the password, verify it, verify the other one against the hash.
genpswhash_main ==
    /\ call.pc = "start"
    /\ LET password_hash == hash_password(call.password, call.salt)
       IN call' = [call EXCEPT !.pc = "done",
                               !.password_hash = password_hash,
                               !.login_ok = <<verify_password(call.password, password_hash)>>,
                               !.login_fail = <<verify_password(call.other, password_hash)>>,
                               !.raised = verify_password_raises(call.password, password_hash)]
    /\ UNCHANGED <<login, nextToken, tasks, outbox, stdout, resp, jar, devices, inflight>>

InitHash ==
    /\ login = <<SeededAdmin>>
    /\ nextToken = 1
    /\ tasks = {}
    /\ outbox = {}
    /\ stdout = {}
    /\ resp = Response("none", <<>>, "", "", "")
    /\ jar = <<None, None>>
    /\ devices = {}
    /\ \E password \in HashInputs, other \in HashInputs, salt \in HashSalts :
          call = [pc |-> "start", password |-> password, other |-> other, salt |-> salt,
                  password_hash |-> None, login_ok |-> None, login_fail |-> None, raised |-> FALSE]
    /\ inflight = <<>>

NextHash == genpswhash_main

SpecHash == InitHash /\ [][NextHash]_vars

\* ------------------------------------------- requests under way at once
\* The server is one process with one event loop (uvicorn.run without
\* workers).  A request that has arrived is a coroutine; several can be under
\* way at once, and the loop runs one of them at a time up to its next await.
\* The handlers are `async def` and call the store with blocking calls: there
\* is no await between the SELECT and the INSERT or UPDATE of a handler.
Coroutines == {1, 2}

\* valid: the request, had it run the moment it arrived, would have passed its
\* lookup (username and email free; token held by a record; email known).
Request(op, username, email, password, token, valid) ==
    [pc |-> "accepted", op |-> op, username |-> username, email |-> email, password |-> password,
     token |-> token, valid |-> valid, resp |-> Response("none", <<>>, "", "", "")]

NoRequest == [Request("none", "", "", AnyPassword, 0, FALSE) EXCEPT !.pc = "none"]

\* What can arrive at the routes that insert a record.  create_user arrives
\* with the cookies of a logged-in administrator.
InsertArrivals ==
    {Request("register", u, e, AnyPassword, 0, SelectByUsernameOrEmail(u, e) = {}) :
        u \in Usernames, e \in Emails}
    \cup {Request("create_user", u, e, AnyPassword, 0, SelectByUsernameOrEmail(u, e) = {}) :
        u \in Usernames, e \in Emails}

\* The new password in the reset form of each request under way: two
\* requests, two passwords.
NewPassword(c) ==
    IF c = 1 THEN [head |-> <<"test">>, tail |-> <<>>] ELSE [head |-> <<"secret123">>, tail |-> <<>>]

\* What can arrive at the routes that issue or consume a token.
TokenArrivals(c) ==
    {Request("forgot", "", e, AnyPassword, 0, SelectByEmail(e) # {}) : e \in Emails}
    \cup {Request("reset", "", "", NewPassword(c), t, SelectByResetToken(t) # {}) : t \in Tokens}
    \cup {Request("verify", "", "", AnyPassword, t, SelectByEmailToken(t) # {}) : t \in Tokens}

Accept(c, arrivals) ==
    /\ inflight[c].pc \in {"none", "done"}
    /\ \E r \in arrivals : inflight' = [inflight EXCEPT ![c] = r]
    /\ UNCHANGED <<login, nextToken, tasks, outbox, stdout, resp, jar, devices, call>>

AcceptInsert(c) == Accept(c, InsertArrivals)

AcceptToken(c) == Accept(c, TokenArrivals(c))

\* The coroutine is through: its response goes out.
Done(c) == inflight' = [inflight EXCEPT ![c].pc = "done", ![c].resp = resp']

\* Mutant: the handler gives way to the event loop between its SELECT and its
\* INSERT (an await there, or a handler run on the thread pool).
RunRegister_yields(c) ==
    /\ inflight[c].op = "register"
    /\ \/ /\ inflight[c].pc = "accepted"
          /\ IF SelectByUsernameOrEmail(inflight[c].username, inflight[c].email) # {}
             THEN /\ register_submit(inflight[c].username, inflight[c].email, inflight[c].password, 1)
                  /\ Done(c)
             ELSE /\ inflight' = [inflight EXCEPT ![c].pc = "selected"]
                  /\ UNCHANGED <<login, nextToken, tasks, outbox, stdout, resp>>
       \/ /\ inflight[c].pc = "selected"
          /\ nextToken <= MaxToken
          /\ nextToken' = nextToken + 1
          /\ login' = InsertUser(inflight[c].username, inflight[c].email,
                                 hash_password(inflight[c].password, 1), 1, nextToken)
          /\ tasks' = tasks \cup {[fn |-> "send_verification_email", email |-> inflight[c].email,
                                   username |-> inflight[c].username, token |-> nextToken]}
          /\ resp' = Response("register", <<>>, "login.html", "success",
                              "Registration complete! Please check your email to activate your account.")
          /\ Done(c)
          /\ UNCHANGED <<outbox, stdout>>
    /\ UNCHANGED <<jar, devices, call>>

RunRegister(c) ==
    /\ inflight[c].pc = "accepted"
    /\ inflight[c].op = "register"
    /\ register_submit(inflight[c].username, inflight[c].email, inflight[c].password, 1)
    /\ Done(c)
    /\ UNCHANGED <<jar, devices, call>>

RunCreateUser(c) ==
    /\ inflight[c].pc = "accepted"
    /\ inflight[c].op = "create_user"
    /\ create_user_submit(inflight[c].username, inflight[c].email, inflight[c].password, None, 1,
                          <<"admin">>, <<"0">>)
    /\ Done(c)
    /\ UNCHANGED <<jar, devices, call>>

RunForgotPassword(c) ==
    /\ inflight[c].pc = "accepted"
    /\ inflight[c].op = "forgot"
    /\ forgot_password_submit(inflight[c].email)
    /\ Done(c)
    /\ UNCHANGED <<jar, devices, call>>

\* Mutant: the handler gives way to the event loop between its SELECT and its
\* UPDATE.
RunResetPassword_yields(c) ==
    /\ inflight[c].op = "reset"
    /\ \/ /\ inflight[c].pc = "accepted"
          /\ IF SelectByResetToken(inflight[c].token) = {}
             THEN /\ reset_password_submit(inflight[c].token, inflight[c].password, 1)
                  /\ Done(c)
             ELSE /\ inflight' = [inflight EXCEPT ![c].pc = "selected"]
                  /\ UNCHANGED <<login, nextToken, tasks, outbox, stdout, resp>>
       \/ /\ inflight[c].pc = "selected"
          /\ login' = SetPasswordAndClearReset(inflight[c].token, hash_password(inflight[c].password, 1))
          /\ resp' = TokenResponse("reset", inflight[c].token, "login.html", "success",
                                   "Password updated! You can now log in.")
          /\ Done(c)
          /\ UNCHANGED <<nextToken, tasks, outbox, stdout>>
    /\ UNCHANGED <<jar, devices, call>>

RunResetPassword(c) ==
    /\ inflight[c].pc = "accepted"
    /\ inflight[c].op = "reset"
    /\ reset_password_submit(inflight[c].token, inflight[c].password, 1)
    /\ Done(c)
    /\ UNCHANGED <<jar, devices, call>>

RunVerify(c) ==
    /\ inflight[c].pc = "accepted"
    /\ inflight[c].op = "verify"
    /\ verify_account(inflight[c].token)
    /\ Done(c)
    /\ UNCHANGED <<jar, devices, call>>

InitConcurrent ==
    /\ login = <<SeededAdmin>>
    /\ nextToken = 1
    /\ tasks = {}
    /\ outbox = {}
    /\ stdout = {}
    /\ resp = Response("none", <<>>, "", "", "")
    /\ jar = <<None, None>>
    /\ devices = {}
    /\ call = <<>>
    /\ inflight = [c \in Coroutines |-> NoRequest]

\* Requests that insert, under way at once.
NextInsert ==
    \E c \in Coroutines :
       \/ AcceptInsert(c)
       \/ RunRegister(c)
       \/ RunCreateUser(c)

SpecInsert == InitConcurrent /\ [][NextInsert]_vars

\* The table after alice registered: her record is pending and its
\* activation mail is queued.
InitToken ==
    /\ login = <<SeededAdmin,
                 [username |-> "alice", email |-> "a@x.com", password |-> hash_password(AnyPassword, 1),
                  type |-> 1, email_token |-> <<1>>, is_active |-> 0, reset_token |-> NULL]>>
    /\ nextToken = 2
    /\ tasks = {[fn |-> "send_verification_email", email |-> "a@x.com", username |-> "alice", token |-> 1]}
    /\ outbox = {}
    /\ stdout = {}
    /\ resp = Response("register", <<>>, "login.html", "success",
                       "Registration complete! Please check your email to activate your account.")
    /\ jar = <<None, None>>
    /\ devices = {}
    /\ call = <<>>
    /\ inflight = [c \in Coroutines |-> NoRequest]

\* Requests that issue and consume tokens, under way at once.
NextToken ==
    \E c \in Coroutines :
       \/ AcceptToken(c)
       \/ RunForgotPassword(c)
       \/ RunResetPassword(c)
       \/ RunVerify(c)

SpecToken == InitToken /\ [][NextToken]_vars

\* ------------------------------------------------- outcomes, by their names
\* What the caller sees of a response: everything but the echo of the request.
Outcome(r) ==
    [page |-> r.page, kind |-> r.kind, msg |-> r.msg,
     user_session |-> r.user_session, user_type |-> r.user_type, max_age |-> r.max_age]

Plain(page, kind, msg) ==
    [page |-> page, kind |-> kind, msg |-> msg, user_session |-> None, user_type |-> None, max_age |-> 0]

InvalidToken == Plain("login.html", "error", "Invalid or expired token.")
Activated == Plain("login.html", "success", "Account activated successfully! You can now log in.")

\* Every mail task ever queued: pending, delivered, or failed and printed.
AllMail == tasks \cup outbox \cup stdout

\* ------------------------------------------------------------------- C1
\* Token t has been stored on a record and no record holds it as its
\* activation token any more.
ActivationSpent(t) == t < nextToken /\ \A i \in DOMAIN login : login[i].email_token # <<t>>

\* C1: activation tokens are single-use.  A successful ActivateAccount(t)
\* leaves t spent; a spent token stays spent whatever happens next; and
\* ActivateAccount(t) on a spent token returns InvalidToken and changes no
\* user record.  Hence once ActivateAccount(t) has succeeded, every later
\* ActivateAccount(t) returns InvalidToken and changes nothing.
C1_ActivationSingleUse ==
    [][\A t \in Tokens :
         /\ ActivationSpent(t) => ActivationSpent(t)'
         /\ resp'.op = "verify" =>
               /\ (Outcome(resp') = Activated /\ verify_account(t)) => ActivationSpent(t)'
               /\ (ActivationSpent(t) /\ verify_account(t)) =>
                     (Outcome(resp') = InvalidToken /\ login' = login)]_vars

\* The token of a delivered, pending or failed activation mail is presented
\* again after its record became active, and is refused.
C1_Witness ==
    /\ resp.op = "verify"
    /\ Outcome(resp) = InvalidToken
    /\ \E m \in AllMail :
         /\ m.fn = "send_verification_email"
         /\ resp.token = m.token
         /\ \E i \in DOMAIN login :
               login[i].username = m.username /\ login[i].is_active = 1 /\ login[i].email_token = NULL

\* ------------------------------------------------------------------- C2
\* C2: in every reachable state each user record is either Pending
\* (is_active = 0) with a non-null activation token or Active (is_active = 1)
\* with a null activation token.
C2_PendingXorActive ==
    \A i \in DOMAIN login :
       \/ login[i].is_active = 0 /\ login[i].email_token # NULL
       \/ login[i].is_active = 1 /\ login[i].email_token = NULL

\* A registered record has been activated, next to a record that is pending
\* or was active from the start.
C2_Witness ==
    /\ resp.op = "verify"
    /\ Outcome(resp) = Activated
    /\ \E i \in DOMAIN login : login[i].is_active = 1 /\ login[i].username # "admin"
\* ----------------------------------------------------------- C3 and C4
InvalidCredentials == Plain("login.html", "error", "Invalid credentials")
AccountNotActive == Plain("login.html", "error", "Account not active. Please check your verification email.")

\* The session a successful login issues for a username and a role marker.
LoggedIn(username, marker) ==
    [page |-> "/welcome", kind |-> "redirect", msg |-> "", user_session |-> <<username>>,
     user_type |-> <<marker>>, max_age |-> 3600]

\* The record stores a hash made of password p.
StoredFor(row, p) == \E s \in Salts : row.password = hash_password(p, s)

RowsOf(username) == {i \in DOMAIN login : login[i].username = username}

\* C3: Login with an unknown username and Login with an existing username
\* but a wrong password return the same InvalidCredentials outcome and set no
\* cookie, whether the existing account is Pending or Active.
C3_UniformInvalidCredentials ==
    [][(/\ resp'.op = "login"
        /\ \E u \in Usernames, p \in Passwords :
              (\A i \in RowsOf(u) : ~StoredFor(login[i], p)) /\ login_submit(u, p)) =>
          Outcome(resp') = InvalidCredentials]_vars

\* A wrong password was presented for a Pending account and got
\* InvalidCredentials.
C3_Witness ==
    /\ resp.op = "login"
    /\ Outcome(resp) = InvalidCredentials
    /\ \E i \in DOMAIN login : resp.key = <<login[i].username>> /\ login[i].is_active = 0

\* C4: Login with the correct password for a Pending record returns
\* AccountNotActive and sets no cookie; a login that sets the identity cookie
\* does so for a record that is Active when the login is made.
C4_PendingGetsNoSession ==
    [][resp'.op = "login" =>
         \A u \in Usernames, p \in Passwords :
            login_submit(u, p) =>
               /\ (RowsOf(u) # {} /\ \A i \in RowsOf(u) : StoredFor(login[i], p) /\ login[i].is_active = 0)
                     => Outcome(resp') = AccountNotActive
               /\ resp'.user_session # None
                     => \E i \in RowsOf(u) : login[i].is_active = 1 /\ resp'.user_session = <<u>>]_vars

\* The right password was presented for a Pending account.
C4_Witness ==
    /\ resp.op = "login"
    /\ Outcome(resp) = AccountNotActive
    /\ \E i \in DOMAIN login : resp.key = <<login[i].username>> /\ login[i].is_active = 0

\* ------------------------------------------------------------------- C5
ResetRequested ==
    Plain("forgot_password.html", "success",
          "If the email is in our system, you will receive a reset link shortly.")

\* C5: RequestPasswordReset returns the same outcome whether or not the email
\* matches a record.  With no match the table and the task queue are
\* unchanged; with a match only the matching record changes, only in its
\* reset token, which becomes a new non-null token, and one reset mail for that
\* email and token is queued.
C5_UniformResetRequest ==
    [][\A e \in Emails :
         (resp'.op = "forgot" /\ forgot_password_submit(e)) =>
            /\ Outcome(resp') = ResetRequested
            /\ IF \A i \in DOMAIN login : login[i].email # e
               THEN login' = login /\ tasks' = tasks
               ELSE /\ DOMAIN login' = DOMAIN login
                    /\ \A i \in DOMAIN login :
                          IF login[i].email = e
                          THEN /\ login'[i].reset_token \notin {NULL, login[i].reset_token}
                               /\ [login'[i] EXCEPT !.reset_token = login[i].reset_token] = login[i]
                               /\ \E m \in tasks' \ tasks :
                                     /\ tasks' = tasks \cup {m}
                                     /\ m.fn = "send_reset_email"
                                     /\ m.email = e
                                     /\ <<m.token>> = login'[i].reset_token
                          ELSE login'[i] = login[i]]_vars

\* A reset was requested for an email no record has, next to a record that
\* has a reset pending.
C5_Witness ==
    /\ resp.op = "forgot"
    /\ Outcome(resp) = ResetRequested
    /\ \A i \in DOMAIN login : resp.key # <<login[i].email>>
    /\ \E i \in DOMAIN login : login[i].reset_token # NULL

\* ------------------------------------------------------------------- C6
PasswordUpdated == Plain("login.html", "success", "Password updated! You can now log in.")

\* C6: CompletePasswordReset with a token that is the reset token of no
\* record returns InvalidToken and leaves every user record unchanged.
C6_BogusResetToken ==
    [][(/\ resp'.op = "reset"
        /\ \E t \in Tokens, p \in Passwords, s \in Salts :
              (\A i \in DOMAIN login : login[i].reset_token # <<t>>) /\ reset_password_submit(t, p, s)) =>
          (Outcome(resp') = InvalidToken /\ login' = login)]_vars

\* The activation token of a Pending record was presented as a reset token
\* while another record had a reset pending.
C6_Witness ==
    /\ resp.op = "reset"
    /\ Outcome(resp) = InvalidToken
    /\ \E i \in DOMAIN login : login[i].email_token = <<resp.token>>
    /\ \E i \in DOMAIN login : login[i].reset_token # NULL

\* ------------------------------------------------------------------- C7
\* Token t has been stored on a record and no record holds it as its reset
\* token any more.
ResetSpent(t) == t < nextToken /\ \A i \in DOMAIN login : login[i].reset_token # <<t>>

\* C7: reset tokens are single-use.  A successful CompletePasswordReset(t, p)
\* replaces the password of the record holding t and clears its reset token
\* in the same step, which leaves t spent; a spent token stays spent; and
\* CompletePasswordReset(t, p') on a spent token returns InvalidToken and
\* changes no record, so the stored password stays.
C7_ResetSingleUse ==
    [][\A t \in Tokens :
         /\ ResetSpent(t) => ResetSpent(t)'
         /\ resp'.op = "reset" =>
               \A p \in Passwords, s \in Salts :
                  /\ (Outcome(resp') = PasswordUpdated /\ reset_password_submit(t, p, s)) =>
                        /\ ResetSpent(t)'
                        /\ \A i \in DOMAIN login :
                              login[i].reset_token = <<t>> =>
                                 (login'[i].password = hash_password(p, s) /\ login'[i].reset_token = NULL)
                  /\ (ResetSpent(t) /\ reset_password_submit(t, p, s)) =>
                        (Outcome(resp') = InvalidToken /\ login' = login)]_vars

\* The token of the only reset mail ever queued for an email is presented
\* after the record's reset token was cleared, and is refused.
C7_Witness ==
    /\ resp.op = "reset"
    /\ Outcome(resp) = InvalidToken
    /\ \E m \in AllMail :
         /\ m.fn = "send_reset_email"
         /\ m.token = resp.token
         /\ \A n \in AllMail : (n.fn = "send_reset_email" /\ n.email = m.email) => n = m
         /\ \E i \in DOMAIN login : login[i].email = m.email /\ login[i].reset_token = NULL

\* ------------------------------------------------------------------- C8
RegisterConflict == Plain("register.html", "error", "Username or Email already taken")
CreateUserConflict == Plain("create_user.html", "error", "Username or Email already present")

Taken(username, email) ==
    \E i \in DOMAIN login : login[i].username = username \/ login[i].email = email

\* The cookies of a request that passes the admin gate.
PassesAdminGate(user_session, user_type) ==
    user_session # None /\ user_session # <<"">> /\ user_type = <<"0">>

\* C8: Register, self-service or by an administrator, with a username or an
\* email that an existing record has returns Conflict, inserts no record,
\* leaves the existing records unchanged and queues no activation mail.
C8_ConflictChangesNothing ==
    [][/\ (/\ resp'.op = "register"
           /\ \E u \in Usernames, e \in Emails, p \in Passwords, s \in Salts :
                 Taken(u, e) /\ register_submit(u, e, p, s)) =>
             (Outcome(resp') = RegisterConflict /\ login' = login /\ tasks' = tasks)
       /\ (/\ resp'.op = "create_user"
           /\ \E cs \in SessionCookies, ct \in TypeCookies :
                 /\ PassesAdminGate(cs, ct)
                 /\ resp'.cookies = <<cs, ct>>
                 /\ \E u \in Usernames, e \in Emails, p \in Passwords, s \in Salts, a \in {None, <<"on">>} :
                       Taken(u, e) /\ create_user_submit(u, e, p, a, s, cs, ct)) =>
             (Outcome(resp') = CreateUserConflict /\ login' = login /\ tasks' = tasks)]_vars

\* A registration was refused while the table held the one record it started
\* with and no mail had ever been queued.
C8_Witness ==
    /\ resp.op = "register"
    /\ Outcome(resp) = RegisterConflict
    /\ login = <<SeededAdmin>>
    /\ AllMail = {}

\* ------------------------------------------------------------------- C9
Registered ==
    Plain("login.html", "success",
          "Registration complete! Please check your email to activate your account.")

\* The role marker of a stored role: "0" administrator, "1" standard.
RoleMarker(type) == IF type = 0 THEN "0" ELSE "1"

\* C9: the lifecycle.  A successful registration appends a Pending record
\* with the given username, email and password, a non-null activation token
\* and the standard role; ActivateAccount with the token of a record makes it
\* Active with a null token; Login with the username and the stored password
\* of an Active record succeeds, and the session carries that username and
\* the role of the record.
C9_Lifecycle ==
    [][/\ \A u \in Usernames, e \in Emails, p \in Passwords, s \in Salts :
            (resp'.op = "register" /\ Outcome(resp') = Registered /\ register_submit(u, e, p, s)) =>
               /\ Len(login') = Len(login) + 1
               /\ \A i \in DOMAIN login : login'[i] = login[i]
               /\ LET r == login'[Len(login')]
                  IN /\ r.username = u /\ r.email = e /\ StoredFor(r, p)
                     /\ r.is_active = 0 /\ r.email_token # NULL /\ r.type = 1
       /\ \A t \in Tokens :
            (/\ resp'.op = "verify"
             /\ \E i \in DOMAIN login : login[i].email_token = <<t>>
             /\ verify_account(t)) =>
               /\ Outcome(resp') = Activated
               /\ \A i \in DOMAIN login :
                     login[i].email_token = <<t>> =>
                        (login'[i].is_active = 1 /\ login'[i].email_token = NULL)
       /\ \A u \in Usernames, p \in Passwords :
            (/\ resp'.op = "login"
             /\ RowsOf(u) # {}
             /\ \A i \in RowsOf(u) : StoredFor(login[i], p) /\ login[i].is_active = 1
             /\ login_submit(u, p)) =>
               \E i \in RowsOf(u) : Outcome(resp') = LoggedIn(u, RoleMarker(login[i].type))]_vars

\* A user who registered and activated logs in and gets a session with the
\* username and the standard role.
C9_Witness ==
    /\ resp.op = "login"
    /\ Outcome(resp) = LoggedIn("alice", "1")
    /\ \E i \in DOMAIN login :
         /\ login[i].username = "alice" /\ login[i].type = 1
         /\ login[i].is_active = 1 /\ login[i].email_token = NULL
         /\ \E m \in AllMail : m.fn = "send_verification_email" /\ m.username = "alice"

\* ------------------------------------------------------------------ C10
\* C10: a record that self-service registration creates has the standard
\* role; no step changes the role of a record; and a step that creates a
\* record with the administrator role is a create_user request whose cookies
\* pass the admin gate.
C10_AdminOnlyByCreateUser ==
    [][/\ \A u \in Usernames, e \in Emails, p \in Passwords, s \in Salts :
            (DOMAIN login' # DOMAIN login /\ register_submit(u, e, p, s)) =>
               \A i \in DOMAIN login' \ DOMAIN login : login'[i].type = 1
       /\ \A i \in DOMAIN login : i \in DOMAIN login' /\ login'[i].type = login[i].type
       /\ (\E i \in DOMAIN login' \ DOMAIN login : login'[i].type = 0) =>
            /\ resp'.op = "create_user"
            /\ PassesAdminGate(resp'.cookies[1], resp'.cookies[2])]_vars

\* An administrator record was created by create_user.
C10_Witness ==
    /\ resp.op = "create_user"
    /\ resp.kind = "success"
    /\ Len(login) = 2
    /\ login[2].type = 0

\* ------------------------------------------------------------------ C11
NotAuthenticated == Plain("/login", "redirect", "")
Forbidden == Plain("/welcome", "redirect", "Access denied: admin permissions required")

\* The request carries no identity value: no cookie, or an empty one.
NoIdentity(user_session) == user_session = None \/ user_session = <<"">>

\* C11: a protected request (GET /welcome, POST /create_user) without an
\* identity value is rejected as NotAuthenticated whatever its role marker is;
\* an admin-gated request (POST /create_user) with an identity value and a
\* role marker other than "0", an absent one included, is rejected as
\* Forbidden; a rejected request changes no record and queues no mail; the
\* admin-gated operation answers from its own page or changes the table only
\* when the identity is present and the marker is "0"; and /welcome is
\* rendered when the identity is present.
C11_SessionValidation ==
    [][resp'.op \in {"welcome", "create_user"} =>
         LET cs == resp'.cookies[1]
             ct == resp'.cookies[2]
         IN /\ NoIdentity(cs) =>
                  (Outcome(resp') = NotAuthenticated /\ login' = login /\ tasks' = tasks)
            /\ (resp'.op = "create_user" /\ ~NoIdentity(cs) /\ ct # <<"0">>) =>
                  (Outcome(resp') = Forbidden /\ login' = login /\ tasks' = tasks)
            /\ (resp'.op = "create_user" /\ (resp'.page = "create_user.html" \/ login' # login)) =>
                  (~NoIdentity(cs) /\ ct = <<"0">>)
            /\ (resp'.op = "welcome" /\ ~NoIdentity(cs)) => resp'.page = "welcome.html"]_vars

\* An admin-gated request came with the administrator marker and an empty
\* identity, and was sent to the login page.
C11_Witness ==
    /\ resp.op = "create_user"
    /\ resp.cookies = <<(<<"">>), (<<"0">>)>>
    /\ Outcome(resp) = NotAuthenticated

\* ------------------------------------------------------------------ C12
\* The record a held session names, with the role the session carries.
SessionOf(held) ==
    {i \in DOMAIN login : held = <<(<<login[i].username>>), (<<RoleMarker(login[i].type)>>)>>}

\* The browser holds nothing or the session of a record.
HeldSessionExists == jar # <<None, None>> => SessionOf(jar) # {}

\* C12: only a successful Login sends the two cookies with a value: the
\* username and the stored role of the record logged in, both with a max-age
\* of 60 minutes.  The browser's cookies change only when such a login
\* replaces them or when a logout or the expiry removes both; after Logout
\* the browser holds neither.  So what the browser holds is nothing, or the
\* session of its last successful login, and: a protected request that
\* presents what the browser holds while it holds nothing is rejected as
\* NotAuthenticated, and an admin-gated request that presents what the
\* browser holds passes only when the held session is that of an
\* administrator record.
C12_SessionIssuedAndInvalidated ==
    [][/\ (resp'.user_session # None \/ resp'.user_type # None) =>
             \/ /\ resp'.op = "login"
                /\ resp'.max_age = 60 * 60
                /\ \E i \in DOMAIN login :
                      /\ resp'.key = <<login[i].username>>
                      /\ login[i].is_active = 1
                      /\ resp'.user_session = <<login[i].username>>
                      /\ resp'.user_type = <<RoleMarker(login[i].type)>>
             \/ /\ resp'.op = "logout"
                /\ resp'.max_age = 0
                /\ resp'.user_session = <<"">> /\ resp'.user_type = <<"">>
       /\ jar' # jar =>
             \/ jar' = <<None, None>>
             \/ resp'.op = "login" /\ jar' = <<resp'.user_session, resp'.user_type>> /\ SessionOf(jar') # {}
       /\ (resp'.op = "logout" /\ BrowserLogout) => jar' = <<None, None>>
       /\ HeldSessionExists /\ HeldSessionExists'
       /\ (resp'.op \in {"welcome", "create_user"} /\ resp'.cookies = jar) =>
             /\ jar = <<None, None>> => Outcome(resp') = NotAuthenticated
             /\ (resp'.op = "create_user" /\ (resp'.page = "create_user.html" \/ login' # login)) =>
                   \E i \in SessionOf(jar) : login[i].type = 0]_vars

\* The browser holds the session of a standard user's login, presented it to
\* the admin-gated operation and was refused.
C12_Witness ==
    /\ resp.op = "create_user"
    /\ resp.cookies = jar
    /\ jar = <<(<<"alice">>), (<<"1">>)>>
    /\ Outcome(resp) = Forbidden
    /\ \E i \in DOMAIN login : login[i].username = "alice" /\ login[i].type = 1 /\ login[i].is_active = 1

\* ------------------------------------------------------------------ C13
\* C13: verify_device(device_id, token) returns normally exactly when the
\* device table holds a record with that device_id and that token; in every
\* other case (unknown device, wrong token, token of another device) it fails
\* with 401 "Invalid Token"; and it leaves the device table as it was.
C13_DeviceGuardFailsClosed ==
    [][resp'.op = "verify_device" =>
         LET device_id == resp'.key[1]
             token == resp'.key[2]
             known == \E r \in devices : r.device_id = device_id /\ r.device_token = token
         IN /\ resp'.kind = "return" <=> known
            /\ ~known => (resp'.kind = "401" /\ resp'.msg = "Invalid Token")
            /\ devices' = devices]_vars

\* A device presented the token of another device and was refused.
C13_Witness ==
    /\ resp.op = "verify_device"
    /\ resp.kind = "401"
    /\ \E r \in devices : r.device_id = resp.key[1] /\ r.device_token # resp.key[2]
    /\ \E r \in devices : r.device_id # resp.key[1] /\ r.device_token = resp.key[2]

\* ------------------------------------------------------------------ C14
\* C14: verify_password does not raise for a stored value that is not a
\* bcrypt hash, it returns false: a Login against a record whose password
\* field is malformed returns InvalidCredentials.
C14_MalformedHashIsInvalidCredentials ==
    [][(/\ resp'.op = "login"
        /\ \E i \in DOMAIN login : resp'.key = <<login[i].username>> /\ ~IsBcryptHash(login[i].password)) =>
          Outcome(resp') = InvalidCredentials]_vars

\* ------------------------------------------------------------------ C15
\* C15: for every password p, also one longer than the 72 bytes bcrypt
\* reads, verify_password(p, hash_password(p)) is true and raises nothing;
\* and verify_password(p1, hash_password(p2)) is false when p1 differs from
\* p2, also when the two agree on their first 72 bytes.
C15_PasswordRoundTrip ==
    call # <<>> /\ call.pc = "done" =>
       /\ ~call.raised
       /\ call.login_ok = <<TRUE>>
       /\ call.login_fail = <<call.other = call.password>>

\* Two passwords longer than 72 bytes that agree on their first 72 bytes:
\* the one verifies against its hash, the other does not.
C15_Witness ==
    /\ call # <<>>
    /\ call.pc = "done"
    /\ call.password.tail # <<>> /\ call.other.tail # <<>>
    /\ call.password.head = call.other.head
    /\ call.password.tail # call.other.tail
    /\ call.login_ok = <<TRUE>>
    /\ call.login_fail = <<FALSE>>

\* ------------------------------------------------------------------ C16
\* C16: the mail of Register, create_user and RequestPasswordReset is sent
\* after the handler answered.  A step that takes no task off the queue, a
\* handler's step among them, sends nothing and prints nothing; the send,
\* whether it succeeds or fails, leaves every record and the response the
\* caller got as they were, and takes its task off the queue; a failed send
\* is printed, and a mail whose send failed is never queued or sent again.
C16_MailFailureIsolated ==
    [][/\ \A t \in tasks, ok \in BOOLEAN :
            (send_verification_email(t, ok) \/ send_reset_email(t, ok)) =>
               /\ login' = login
               /\ resp' = resp
               /\ tasks' = tasks \ {t}
               /\ ~ok => (stdout' = stdout \cup {t} /\ outbox' = outbox)
               /\ ok => (outbox' = outbox \cup {t} /\ stdout' = stdout)
       /\ tasks \subseteq tasks' => (outbox' = outbox /\ stdout' = stdout)
       /\ \A m \in stdout : m \notin tasks' /\ m \notin outbox']_vars

\* The activation mail of a registration could not be sent: the error was
\* printed, the caller had been told the registration is complete, and the
\* record is there, pending, with the token of the mail.
C16_Witness ==
    /\ resp.op = "register"
    /\ Outcome(resp) = Registered
    /\ \E m \in stdout :
         /\ m.fn = "send_verification_email"
         /\ m \notin tasks /\ m \notin outbox
         /\ \E i \in DOMAIN login :
               login[i].username = m.username /\ login[i].email_token = <<m.token>> /\ login[i].is_active = 0

C19_ResetTakesEffectForLogin ==
    [][/\ \A i \in DOMAIN login :
            login'[i].password # login[i].password =>
               /\ resp'.op = "reset"
               /\ Outcome(resp') = PasswordUpdated
               /\ login[i].reset_token = <<resp'.token>>
       /\ (resp'.op = "reset" /\ Outcome(resp') = PasswordUpdated) =>
            \A p \in Passwords, s \in Salts :
               reset_password_submit(resp'.token, p, s) =>
                  \A i \in DOMAIN login :
                     login[i].reset_token = <<resp'.token>> =>
                        /\ StoredFor(login'[i], p)
                        /\ \A q \in Passwords \ {p} : ~StoredFor(login'[i], q)
       /\ resp'.op = "login" =>
            \A u \in Usernames, p \in Passwords :
               login_submit(u, p) =>
                  \A i \in RowsOf(u) :
                     login[i].is_active = 1 =>
                        IF StoredFor(login[i], p)
                        THEN Outcome(resp') = LoggedIn(u, RoleMarker(login[i].type))
                        ELSE Outcome(resp') = InvalidCredentials]_vars

\* The administrator, whose password was "test" at first, has had it
\* replaced by a reset and has logged in since.
C19_Witness ==
    /\ resp.op = "login"
    /\ Outcome(resp) = LoggedIn("admin", "0")
    /\ \E i \in DOMAIN login :
         /\ login[i].username = "admin"
         /\ login[i].is_active = 1
         /\ ~StoredFor(login[i], AnyPassword)
         /\ login[i].reset_token = NULL
         /\ \E m \in AllMail : m.fn = "send_reset_email" /\ m.email = login[i].email

\* ------------------------------------------------------------------ C20
\* C20: a record holds one reset token, the one issued last.  A
\* RequestPasswordReset for the email of a record that has a reset pending
\* puts the newly mailed token T2 in place of the pending T1, which no record
\* holds from then on; CompletePasswordReset with a token that no record
\* holds (T1) returns InvalidToken and changes nothing, and with a token
\* that a record holds (T2) it succeeds.
C20_LatestResetTokenOnly ==
    [][/\ \A e \in Emails :
            (resp'.op = "forgot" /\ forgot_password_submit(e)) =>
               \A i \in DOMAIN login :
                  login[i].email = e =>
                     /\ \E m \in tasks' \ tasks : m.email = e /\ login'[i].reset_token = <<m.token>>
                     /\ \A t \in Tokens :
                           login[i].reset_token = <<t>> =>
                              (login'[i].reset_token # <<t>> /\ ResetSpent(t)')
       /\ resp'.op = "reset" =>
            \A t \in Tokens, p \in Passwords, s \in Salts :
               reset_password_submit(t, p, s) =>
                  IF \E i \in DOMAIN login : login[i].reset_token = <<t>>
                  THEN Outcome(resp') = PasswordUpdated
                  ELSE Outcome(resp') = InvalidToken /\ login' = login]_vars

\* Two reset mails were queued for one email; the token of the first was
\* presented while the record held the token of the second, and was refused.
C20_Witness ==
    /\ resp.op = "reset"
    /\ Outcome(resp) = InvalidToken
    /\ \E m1, m2 \in AllMail :
         /\ m1.fn = "send_reset_email" /\ m2.fn = "send_reset_email"
         /\ m1.email = m2.email
         /\ m1.token < m2.token
         /\ resp.token = m1.token
         /\ \E i \in DOMAIN login :
               /\ login[i].email = m1.email
               /\ login[i].reset_token = <<m2.token>>
               /\ login[i].password = SeededAdmin.password

\* ------------------------------------------------------------------ C21
\* A record that has had a reset completed: a reset mail was queued for its
\* email and it holds no reset token (only a completed reset clears one).
ResetCompleted(row) ==
    /\ row.reset_token = NULL
    /\ \E m \in AllMail : m.fn = "send_reset_email" /\ m.email = row.email

\* The fields of the activation flow and the identity of a record.
ActivationPart(row) == <<row.is_active, row.email_token, row.type, row.username, row.email>>

\* The fields of the reset flow.
ResetPart(row) == <<row.password, row.reset_token>>

\* C21: the reset flow and the activation flow are orthogonal.
\* RequestPasswordReset and CompletePasswordReset leave the activation
\* state, activation token, role, username and email of every record as they
\* were, so a Pending record whose password was reset is still Pending and
\* Login with its stored password returns AccountNotActive; ActivateAccount
\* leaves the password and the reset token of every record as they were; no
\* record is removed, and a record changes in a step only when it is matched
\* by the email presented to RequestPasswordReset or by the token presented
\* to CompletePasswordReset or ActivateAccount.
C21_ResetAndActivationOrthogonal ==
    [][/\ Len(login') >= Len(login)
       /\ (resp'.op = "forgot" /\ \E e \in Emails : forgot_password_submit(e)) =>
            \A i \in DOMAIN login : ActivationPart(login'[i]) = ActivationPart(login[i])
       /\ (resp'.op = "reset" /\ \E t \in Tokens, p \in Passwords, s \in Salts :
                                    reset_password_submit(t, p, s)) =>
            \A i \in DOMAIN login : ActivationPart(login'[i]) = ActivationPart(login[i])
       /\ (resp'.op = "verify" /\ \E t \in Tokens : verify_account(t)) =>
            \A i \in DOMAIN login :
               /\ ResetPart(login'[i]) = ResetPart(login[i])
               /\ <<login'[i].type, login'[i].username, login'[i].email>>
                     = <<login[i].type, login[i].username, login[i].email>>
       /\ \A i \in DOMAIN login :
            login'[i] # login[i] =>
               \/ resp'.op = "forgot" /\ resp'.key = <<login[i].email>>
               \/ resp'.op = "reset" /\ login[i].reset_token = <<resp'.token>>
               \/ resp'.op = "verify" /\ login[i].email_token = <<resp'.token>>
       /\ resp'.op = "login" =>
            \A u \in Usernames, p \in Passwords :
               login_submit(u, p) =>
                  \A i \in RowsOf(u) :
                     (login[i].is_active = 0 /\ ResetCompleted(login[i]) /\ StoredFor(login[i], p))
                        => Outcome(resp') = AccountNotActive]_vars

\* A Pending record has had its password replaced by a reset, still holds
\* its activation token, and Login with its username has returned
\* AccountNotActive since.
C21_Witness ==
    /\ resp.op = "login"
    /\ Outcome(resp) = AccountNotActive
    /\ \E i \in DOMAIN login :
         /\ resp.key = <<login[i].username>>
         /\ login[i].is_active = 0
         /\ login[i].email_token # NULL
         /\ ResetCompleted(login[i])
         /\ \E m \in AllMail : m.fn = "send_verification_email" /\ m.email = login[i].email

====
